---- MODULE Spec2Model ----
(***************************************************************************)
(* Model of Code/camera/Frame.py (class Frame) and Code/tools/Matcher.py   *)
(* (class Matcher).                                                        *)
(*                                                                         *)
(* Abstractions:                                                           *)
(*  - an image file on disk is its pixel size <<width, height>>, or NoFile *)
(*    when the path cannot be opened;                                      *)
(*  - key_points / descriptors of a Frame are their count (NoFeatures is   *)
(*    Python's None);                                                      *)
(*  - a cv2.DMatch is [queryIdx, trainIdx, distance], distances are        *)
(*    naturals and filter_test is a rational <<num, den>>, so that         *)
(*    m.distance < filter_test * n.distance is computed exactly;           *)
(*  - cv2 / PIL / open3d calls are the environment: knnMatch answers with  *)
(*    any well-formed k-nearest-neighbour list, drawMatches and resize     *)
(*    are recorded in the call's trace.                                    *)
(***************************************************************************)
EXTENDS Integers, Sequences, FiniteSets, TLC

VARIABLES
    matcher,    \* the Matcher object: the attributes __init__ has set
    disk,       \* path -> size of the image stored there, or NoFile
    handles,    \* open file handles, counted by the method that opened them
    pc,         \* position of the caller: "idle" or "returned"
    call        \* the last call: operation, arguments, result, exception, output

vars == <<matcher, disk, handles, pc, call>>

----------------------------------------------------------------------------
(* Bounds of the model *)

MaxQueries == 3     \* descriptors (= key points) of a frame: 0..MaxQueries
MaxDist == 2        \* distances of a DMatch: 0..MaxDist
MaxMatches == 2     \* length of the list handed to draw_matches / _filter
MaxOpen == 1        \* images a caller keeps open from get_pil_images

(* Program constants *)

K == 2                       \* knnMatch(..., k=2)
LSH == 6                     \* if search_algorithm == 6
TableNumber == 6             \* table_number=6
KeySize == 12                \* key_size=12
MultiProbeLevel == 1         \* multi_probe_level=1
Trees == 5                   \* trees=5
DefaultSearchAlgorithm == 6  \* search_algorithm=6
DefaultLimit == -1           \* limit=-1
NoFeatures == -1             \* self.key_points = None / self.descriptors = None

FLANN == "FLANN"
DNN == "DNN"
DefaultFilterTest == <<7, 10>>   \* filter_test=0.7

----------------------------------------------------------------------------
(* Python values *)

PyNone == [kind |-> "None", val |-> <<>>]
PyList(s) == [kind |-> "list", val |-> s]
PySize(s) == [kind |-> "size", val |-> s]
PyImage(s) == [kind |-> "image", val |-> s]
PyPair(a, b) == [kind |-> "pair", val |-> <<a, b>>]

\* an argument with a default value: omitted, or given
Omitted == [given |-> FALSE]
Given(v) == [given |-> TRUE, val |-> v]
ArgOr(arg, default) == IF arg.given THEN arg.val ELSE default

Min(a, b) == IF a < b THEN a ELSE b
Max(a, b) == IF a > b THEN a ELSE b

\* s[:k]
PySliceTo(s, k) ==
    LET stop == IF k >= 0 THEN Min(k, Len(s)) ELSE Max(0, Len(s) + k)
    IN  SubSeq(s, 1, stop)

\* an element of a list: a tuple of items, or a value that cannot be iterated
Tuple(items) == [iterable |-> TRUE, items |-> items]
Scalar == [iterable |-> FALSE, items |-> <<>>]

DMatch(q, t, d) == [queryIdx |-> q, trainIdx |-> t, distance |-> d]

----------------------------------------------------------------------------
(* The files *)

NoFile == <<>>
ColorPaths == {"a.png", "b.png", "c.png", "missing.png"}
DepthOf(p) == "d_" \o p
DepthPaths == {DepthOf(p) : p \in ColorPaths}
Paths == ColorPaths \cup DepthPaths

InitDisk ==
    [p \in Paths |->
        IF p \in {"a.png", "b.png"} THEN <<4, 3>>
        ELSE IF p = "c.png" THEN <<2, 3>>
        ELSE IF p \in {"d_a.png", "d_b.png", "d_c.png"} THEN <<4, 3>>
        ELSE NoFile]

NoHandles == [get_size |-> 0, get_pil_images |-> 0]

----------------------------------------------------------------------------
(* class Frame *)

Frame__init__(color_path, depth_path) ==
    [color_path |-> color_path, depth_path |-> depth_path,
     key_points |-> NoFeatures, descriptors |-> NoFeatures]

\* external code assigns key_points and descriptors, index for index
WithFeatures(frame, n) == [frame EXCEPT !.key_points = n, !.descriptors = n]

FeatureCounts == {NoFeatures} \cup 0..MaxQueries

FrameValues ==
    {WithFeatures(Frame__init__(p, DepthOf(p)), n) : p \in ColorPaths, n \in FeatureCounts}

\* the paths a selector `ret` names; a selector that matches no branch names none
Selected(self, ret) ==
    IF ret = "both" THEN <<self.color_path, self.depth_path>>
    ELSE IF ret = "rgb" THEN <<self.color_path>>
    ELSE IF ret = "depth" THEN <<self.depth_path>>
    ELSE <<>>

Selectors == {"both", "rgb", "depth", "other"}

Missing(ps, dsk) == \E i \in 1..Len(ps) : dsk[ps[i]] = NoFile

\* the value a get_*_images method returns for the images it has loaded
Loaded(imgs) ==
    IF Len(imgs) = 0 THEN PyNone
    ELSE IF Len(imgs) = 1 THEN imgs[1]
    ELSE PyPair(imgs[1], imgs[2])

\* Image.open keeps the file open for as long as the image lives
get_pil_images(self, ret, dsk, h) ==
    LET ps == Selected(self, ret) IN
    IF Missing(ps, dsk)
    THEN [ret |-> PyNone, exc |-> "FileNotFoundError", handles |-> h, self |-> self]
    ELSE [ret |-> Loaded([i \in 1..Len(ps) |-> PyImage(dsk[ps[i]])]), exc |-> "",
          handles |-> [h EXCEPT !.get_pil_images = @ + Len(ps)], self |-> self]

\* o3d.io.read_image answers an empty image for a file it cannot read
get_o3d_images(self, ret, dsk, h) ==
    LET ps == Selected(self, ret) IN
    [ret |-> Loaded([i \in 1..Len(ps) |->
                        IF dsk[ps[i]] = NoFile THEN PyImage(<<0, 0>>) ELSE PyImage(dsk[ps[i]])]),
     exc |-> "", handles |-> h, self |-> self]

\* cv2.imread answers None for a file it cannot read
get_cv2_images(self, ret, dsk, h) ==
    LET ps == Selected(self, ret) IN
    [ret |-> Loaded([i \in 1..Len(ps) |->
                        IF dsk[ps[i]] = NoFile THEN PyNone ELSE PyImage(dsk[ps[i]])]),
     exc |-> "", handles |-> h, self |-> self]

get_rgbd_image(self, dsk, h) ==
    [ret |-> PyNone, exc |-> "", handles |-> h, self |-> self]

\* `with Image.open(...) as img`: leaving the block closes the file
WithExitLeak(h) == h

WithExit(h) == [h EXCEPT !.get_size = @ - 1]

get_size(self, dsk, h) ==
    IF dsk[self.color_path] = NoFile
    THEN [ret |-> PyNone, exc |-> "FileNotFoundError", handles |-> h, self |-> self]
    ELSE LET opened == [h EXCEPT !.get_size = @ + 1]
         IN  [ret |-> PySize(dsk[self.color_path]), exc |-> "",
              handles |-> WithExit(opened), self |-> self]

----------------------------------------------------------------------------
(* class Matcher *)

\* no Matcher object has been constructed yet
NoObject == [unconstructed |-> TRUE]
Constructed(m) == "num_features" \in DOMAIN m

FilterTests == {<<1, 2>>, DefaultFilterTest, <<1, 1>>}
Methods == {FLANN, DNN, "unknown"}

IndexParams(search_algorithm) ==
    IF search_algorithm = LSH
    THEN [algorithm |-> search_algorithm, table_number |-> TableNumber,
          key_size |-> KeySize, multi_probe_level |-> MultiProbeLevel]
    ELSE [algorithm |-> search_algorithm, trees |-> Trees]

FlannBasedMatcher(indexParams, searchParams) ==
    [indexParams |-> indexParams, searchParams |-> searchParams]

\* variant: an unrecognized method falls back to the FLANN engine
InitFallback(num_features, method, search_algorithm, filter_test) ==
    [self |-> [num_features |-> num_features, filter_test |-> filter_test,
               core |-> FlannBasedMatcher(IndexParams(search_algorithm),
                                          [checks |-> num_features])],
     exc |-> "",
     out |-> IF method = FLANN THEN <<>> ELSE <<"Method not found">>]

Matcher__init__(num_features, method, search_algorithm, filter_test) ==
    LET self == [num_features |-> num_features, filter_test |-> filter_test] IN
    IF method = FLANN
    THEN [self |-> [num_features |-> self.num_features, filter_test |-> self.filter_test,
                    core |-> FlannBasedMatcher(IndexParams(search_algorithm),
                                               [checks |-> self.num_features])],
          exc |-> "", out |-> <<>>]
    ELSE IF method = DNN
    THEN [self |-> self, exc |-> "", out |-> <<"DNN matcher to be done yet...">>]
    ELSE [self |-> self, exc |-> "", out |-> <<"Method not found">>]

\* Lowe's test, filter_test = <<num, den>>:  m.distance < filter_test * n.distance
LoweTestLeq(m, n, filter_test) ==
    m.distance * filter_test[2] <= filter_test[1] * n.distance

LoweTest(m, n, filter_test) ==
    m.distance * filter_test[2] < filter_test[1] * n.distance

\* good.append(m)
AcceptFront(good, m) == <<m>> \o good

Accept(good, m) == Append(good, m)

\* except ValueError: print, pass -- the function ends without a return value
OnValueErrorPartial(good) ==
    [ret |-> PyList(good), exc |-> "", out |-> <<"Filter matching error">>]

OnValueError(good) ==
    [ret |-> PyNone, exc |-> "", out |-> <<"Filter matching error">>]

\* `for m, n in matches`: unpacking a tuple whose length is not 2 raises
\* ValueError, unpacking a value that cannot be iterated raises TypeError
RECURSIVE FilterLoop(_, _, _, _)
FilterLoop(matches, filter_test, i, good) ==
    IF i > Len(matches) THEN [ret |-> PyList(good), exc |-> "", out |-> <<>>]
    ELSE LET x == matches[i] IN
         IF ~x.iterable THEN [ret |-> PyNone, exc |-> "TypeError", out |-> <<>>]
         ELSE IF Len(x.items) # 2 THEN OnValueError(good)
         ELSE LET m == x.items[1]
                  n == x.items[2]
              IN  FilterLoop(matches, filter_test, i + 1,
                             IF LoweTest(m, n, filter_test) THEN Accept(good, m) ELSE good)

_filter(matches, filter_test) == FilterLoop(matches, filter_test, 1, <<>>)

\* [x for x in matches if len(x) == 2]
MatchKeepNonEmpty(x) == Len(x.items) >= 1

MatchKeepShort(x) == Len(x.items) <= 2

MatchKeep(x) == Len(x.items) = 2

\* the answers of core.knnMatch(img_1.descriptors, img_2.descriptors, k=2): one
\* entry per descriptor of img_1, in order, each with at most k candidates of
\* img_2, the nearest first; FLANN may find fewer than k.  No code reads
\* trainIdx: the candidates of an entry are numbered 0, 1 in the order listed.
EntryShapes(nt) ==
    {<<>>}
    \cup {<<DMatch(0, 0, d)>> : d \in {e \in 0..MaxDist : nt >= 1}}
    \cup {<<DMatch(0, 0, d[1]), DMatch(0, 1, d[2])>> :
            d \in {e \in (0..MaxDist) \X (0..MaxDist) : e[1] <= e[2] /\ nt >= K}}

OfQuery(shape, q) == [j \in 1..Len(shape) |-> [shape[j] EXCEPT !.queryIdx = q]]

KnnError == [ok |-> FALSE, val |-> <<>>]

KnnAnswers(img_1, img_2) ==
    IF img_1.descriptors = NoFeatures \/ img_2.descriptors = NoFeatures
    THEN {KnnError}
    ELSE {[ok |-> TRUE, val |-> [i \in 1..img_1.descriptors |-> Tuple(OfQuery(sh[i], i - 1))]] :
            sh \in [1..img_1.descriptors -> EntryShapes(img_2.descriptors)]}

matchBody(self, img_1, img_2, answer) ==
    IF "core" \notin DOMAIN self
    THEN [self |-> self, ret |-> PyNone, exc |-> "AttributeError", out |-> <<>>,
          filtered |-> <<>>, threshold |-> <<0, 1>>, stage |-> "core"]
    ELSE IF ~answer.ok
    THEN [self |-> self, ret |-> PyNone, exc |-> "cv2.error", out |-> <<>>,
          filtered |-> <<>>, threshold |-> <<0, 1>>, stage |-> "knnMatch"]
    ELSE LET matches == SelectSeq(answer.val, MatchKeep)
             r == _filter(matches, self.filter_test)
         IN  [self |-> self, ret |-> r.ret, exc |-> r.exc, out |-> r.out,
              filtered |-> matches, threshold |-> self.filter_test, stage |-> "_filter"]

\* variant: match rebuilds the engine for the descriptors at hand
matchRebuild(self, img_1, img_2, answer) ==
    LET r == matchBody(self, img_1, img_2, answer) IN
    IF "core" \in DOMAIN self /\ answer.ok
    THEN [r EXCEPT !.self = [self EXCEPT !.core.searchParams.checks = img_1.descriptors]]
    ELSE r

match(self, img_1, img_2, answer) == matchBody(self, img_1, img_2, answer)

\* assert img_1.get_size() == img_2.get_size()
SizesAgreeHeight(s1, s2) == s1[2] = s2[2]

SizesAgree(s1, s2) == s1 = s2

\* cv2.drawMatches: every match must index a key point of each image
Drawable(img1, kp1, img2, kp2, ms) ==
    /\ img1.kind = "image" /\ img2.kind = "image"
    /\ kp1 # NoFeatures /\ kp2 # NoFeatures
    /\ \A i \in 1..Len(ms) : ms[i].queryIdx < kp1 /\ ms[i].trainIdx < kp2

draw_matches(img_1, img_2, matches, limit, dsk, h) ==
    LET lim == ArgOr(limit, DefaultLimit)
        s1 == get_size(img_1, dsk, h)
        s2 == get_size(img_2, dsk, s1.handles)
        c1 == get_cv2_images(img_1, "rgb", dsk, s2.handles)
        c2 == get_cv2_images(img_2, "rgb", dsk, c1.handles)
        passed == PySliceTo(matches, lim)
        s3 == get_size(img_1, dsk, c2.handles)
    IN  IF s1.exc # ""
        THEN [ret |-> PyNone, exc |-> s1.exc, handles |-> s1.handles,
              trace |-> <<"get_size">>, passed |-> <<>>]
        ELSE IF s2.exc # ""
        THEN [ret |-> PyNone, exc |-> s2.exc, handles |-> s2.handles,
              trace |-> <<"get_size", "get_size">>, passed |-> <<>>]
        ELSE IF ~SizesAgree(s1.ret.val, s2.ret.val)
        THEN [ret |-> PyNone, exc |-> "AssertionError", handles |-> s2.handles,
              trace |-> <<"get_size", "get_size">>, passed |-> <<>>]
        ELSE IF ~Drawable(c1.ret, img_1.key_points, c2.ret, img_2.key_points, passed)
        THEN [ret |-> PyNone, exc |-> "cv2.error", handles |-> c2.handles,
              trace |-> <<"get_size", "get_size", "imread", "imread", "drawMatches">>,
              passed |-> passed]
        ELSE [ret |-> PyImage(<<s3.ret.val[1] * 2, s3.ret.val[2]>>), exc |-> s3.exc,
              handles |-> s3.handles,
              trace |-> <<"get_size", "get_size", "imread", "imread", "drawMatches",
                          "get_size", "resize">>,
              passed |-> passed]

----------------------------------------------------------------------------
(* The calls *)

NoCall == [op |-> "none"]

NumFeatures == {50}
SearchAlgorithmArgs == {Omitted, Given(1)}
FilterTestArgs == {Omitted} \cup {Given(t) : t \in FilterTests \ {DefaultFilterTest}}

\* match reads only the descriptors of its frames; more than K descriptors in
\* img_2 only widen the choice of trainIdx, which no code reads
QueryFrames == {f \in FrameValues : f.color_path = "a.png"}
TrainFrames == {f \in FrameValues : f.color_path = "b.png" /\ f.descriptors <= K}

\* draw_matches reads the color path and the key points of its frames
DrawFrames == {f \in FrameValues : f.key_points \in {NoFeatures, MaxQueries}}
DrawElems == {DMatch(j, j, 0) : j \in {0, MaxQueries}}
Limits == {Omitted} \cup {Given(k) : k \in (0 - 2)..(MaxMatches + 1)}

\* the elements _filter may be handed when it is called directly
RawShapes ==
    {Scalar, Tuple(<<>>)}
    \cup {Tuple(<<DMatch(0, 0, d)>>) : d \in 0..MaxDist}
    \cup {Tuple(<<DMatch(0, 0, d), DMatch(0, 1, e)>>) : d \in 0..MaxDist, e \in 0..MaxDist}
    \cup {Tuple(<<DMatch(0, 0, d), DMatch(0, 1, d), DMatch(0, 2, d)>>) : d \in 0..MaxDist}

\* element i of a list carries queryIdx i - 1
RawList(sh) == [i \in 1..Len(sh) |-> [sh[i] EXCEPT !.items = OfQuery(@, i - 1)]]

Init ==
    /\ matcher = NoObject
    /\ disk = InitDisk
    /\ handles = NoHandles
    /\ pc = "idle"
    /\ call = NoCall

\* Matcher(num_features, method, search_algorithm, filter_test)
Construct ==
    /\ pc = "idle"
    /\ ~Constructed(matcher)
    /\ \E nf \in NumFeatures, method \in Methods,
          sa \in SearchAlgorithmArgs, ft \in FilterTestArgs :
         LET r == Matcher__init__(nf, method, ArgOr(sa, DefaultSearchAlgorithm),
                                  ArgOr(ft, DefaultFilterTest))
         IN  /\ matcher' = r.self
             /\ call' = [op |-> "__init__", num_features |-> nf, method |-> method,
                         search_algorithm |-> ArgOr(sa, DefaultSearchAlgorithm),
                         filter_test |-> ArgOr(ft, DefaultFilterTest),
                         ret |-> PyNone, exc |-> r.exc, out |-> r.out]
    /\ pc' = "returned"
    /\ UNCHANGED <<disk, handles>>

\* matcher.match(img_1, img_2)
Match ==
    /\ pc = "idle"
    /\ Constructed(matcher)
    /\ \E img_1 \in QueryFrames, img_2 \in TrainFrames :
         \E answer \in (IF "core" \in DOMAIN matcher
                        THEN KnnAnswers(img_1, img_2) ELSE {KnnError}) :
            LET r == match(matcher, img_1, img_2, answer)
            IN  /\ matcher' = r.self
                /\ call' = [op |-> "match", self |-> matcher, img_1 |-> img_1,
                            img_2 |-> img_2, knn |-> answer, filtered |-> r.filtered,
                            threshold |-> r.threshold, stage |-> r.stage,
                            ret |-> r.ret, exc |-> r.exc, out |-> r.out]
    /\ pc' = "returned"
    /\ UNCHANGED <<disk, handles>>

\* Matcher._filter(matches, filter_test)
Filter ==
    /\ pc = "idle"
    /\ \E n \in 0..MaxMatches, ft \in FilterTests : \E sh \in [1..n -> RawShapes] :
         LET matches == RawList(sh)
             r == _filter(matches, ft)
         IN  call' = [op |-> "_filter", matches |-> matches, filter_test |-> ft,
                      ret |-> r.ret, exc |-> r.exc, out |-> r.out]
    /\ pc' = "returned"
    /\ UNCHANGED <<matcher, disk, handles>>

\* Matcher.draw_matches(img_1, img_2, matches, limit)
DrawMatches ==
    /\ pc = "idle"
    /\ \E img_1 \in DrawFrames, img_2 \in DrawFrames, limit \in Limits, n \in 0..MaxMatches :
         \E matches \in [1..n -> DrawElems] :
         LET r == draw_matches(img_1, img_2, matches, limit, disk, handles)
         IN  /\ handles' = r.handles
             /\ call' = [op |-> "draw_matches", img_1 |-> img_1, img_2 |-> img_2,
                         matches |-> matches, limit |-> limit, passed |-> r.passed,
                         trace |-> r.trace, ret |-> r.ret, exc |-> r.exc, out |-> <<>>]
    /\ pc' = "returned"
    /\ UNCHANGED <<matcher, disk>>

\* frame.get_size()
GetSize ==
    /\ pc = "idle"
    /\ \E self \in FrameValues :
         LET r == get_size(self, disk, handles)
         IN  /\ handles' = r.handles
             /\ call' = [op |-> "get_size", self |-> self, after |-> r.self,
                         ret |-> r.ret, exc |-> r.exc, out |-> <<>>]
    /\ pc' = "returned"
    /\ UNCHANGED <<matcher, disk>>

\* frame.get_pil_images(ret); the caller keeps at most MaxOpen images open
GetPilImages ==
    /\ pc = "idle"
    /\ \E self \in FrameValues, ret \in Selectors :
         LET r == get_pil_images(self, ret, disk, handles)
         IN  /\ r.handles.get_pil_images <= MaxOpen
             /\ handles' = r.handles
             /\ call' = [op |-> "get_pil_images", self |-> self, after |-> r.self,
                         sel |-> ret, ret |-> r.ret, exc |-> r.exc, out |-> <<>>]
    /\ pc' = "returned"
    /\ UNCHANGED <<matcher, disk>>

\* frame.get_o3d_images(ret)
GetO3dImages ==
    /\ pc = "idle"
    /\ \E self \in FrameValues, ret \in Selectors :
         LET r == get_o3d_images(self, ret, disk, handles)
         IN  /\ handles' = r.handles
             /\ call' = [op |-> "get_o3d_images", self |-> self, after |-> r.self,
                         sel |-> ret, ret |-> r.ret, exc |-> r.exc, out |-> <<>>]
    /\ pc' = "returned"
    /\ UNCHANGED <<matcher, disk>>

\* frame.get_cv2_images(ret)
GetCv2Images ==
    /\ pc = "idle"
    /\ \E self \in FrameValues, ret \in Selectors :
         LET r == get_cv2_images(self, ret, disk, handles)
         IN  /\ handles' = r.handles
             /\ call' = [op |-> "get_cv2_images", self |-> self, after |-> r.self,
                         sel |-> ret, ret |-> r.ret, exc |-> r.exc, out |-> <<>>]
    /\ pc' = "returned"
    /\ UNCHANGED <<matcher, disk>>

\* frame.get_rgbd_image()
GetRgbdImage ==
    /\ pc = "idle"
    /\ \E self \in FrameValues :
         LET r == get_rgbd_image(self, disk, handles)
         IN  /\ handles' = r.handles
             /\ call' = [op |-> "get_rgbd_image", self |-> self, after |-> r.self,
                         ret |-> r.ret, exc |-> r.exc, out |-> <<>>]
    /\ pc' = "returned"
    /\ UNCHANGED <<matcher, disk>>

\* the call has ended: its value or exception is with the caller
Return ==
    /\ pc = "returned"
    /\ pc' = "idle"
    /\ call' = NoCall
    /\ UNCHANGED <<matcher, disk, handles>>

\* a Matcher, constructed once, then used for match and draw_matches
Next == Construct \/ Match \/ DrawMatches \/ Return

Spec == Init /\ [][Next]_vars

\* the ratio-test loop on any list
NextFilter == Filter \/ Return

SpecFilter == Init /\ [][NextFilter]_vars

\* the accessors of a Frame
NextFrame == GetSize \/ GetPilImages \/ GetO3dImages \/ GetCv2Images \/ GetRgbdImage \/ Return

SpecFrame == Init /\ [][NextFrame]_vars

----------------------------------------------------------------------------
(* Properties of Matcher.match *)

\* entry i of the answer of knnMatch held two candidates
TwoCandidates(i) == Len(call.knn.val[i].items) = 2

\* entry i held two candidates and the best is below filter_test times the second
PassesRatio(i, t) ==
    /\ TwoCandidates(i)
    /\ call.knn.val[i].items[1].distance * t[2] < t[1] * call.knn.val[i].items[2].distance

\* the query of a returned match, as an index of the answer of knnMatch
QueryOf(r) == r.queryIdx + 1

MatchFiltered == call.op = "match" /\ call.stage = "_filter"

\* C1: every match that match returns is the best candidate of a pair with
\* best.distance < filter_test * second_best.distance, strictly; no returned
\* match comes from a pair with best.distance >= filter_test * second_best.distance.
C1_RatioTestStrict ==
    (MatchFiltered /\ call.ret.kind = "list") =>
        \A j \in 1..Len(call.ret.val) :
            LET r == call.ret.val[j] IN
            /\ QueryOf(r) \in 1..Len(call.knn.val)
            /\ PassesRatio(QueryOf(r), call.self.filter_test)
            /\ call.knn.val[QueryOf(r)].items[1] = r

\* a match was accepted while another pair, of equal distances, was rejected
C1_Witness ==
    /\ MatchFiltered /\ call.ret.kind = "list" /\ Len(call.ret.val) >= 1
    /\ \E i \in 1..Len(call.knn.val) :
          /\ TwoCandidates(i)
          /\ call.knn.val[i].items[1].distance * call.self.filter_test[2]
                = call.self.filter_test[1] * call.knn.val[i].items[2].distance
          /\ \A j \in 1..Len(call.ret.val) : QueryOf(call.ret.val[j]) # i

\* C2: match never returns a match of a query that yielded a number of
\* candidates other than 2; such queries are discarded before the ratio test.
C2_OnlyTwoCandidates ==
    MatchFiltered =>
        /\ \A i \in 1..Len(call.filtered) : Len(call.filtered[i].items) = 2
        /\ call.ret.kind = "list" =>
              \A j \in 1..Len(call.ret.val) :
                  /\ QueryOf(call.ret.val[j]) \in 1..Len(call.knn.val)
                  /\ TwoCandidates(QueryOf(call.ret.val[j]))

\* a match was returned although queries with 0 and with 1 candidate were present
C2_Witness ==
    /\ MatchFiltered /\ call.ret.kind = "list" /\ Len(call.ret.val) >= 1
    /\ \E i \in 1..Len(call.knn.val) : Len(call.knn.val[i].items) = 0
    /\ \E i \in 1..Len(call.knn.val) : Len(call.knn.val[i].items) = 1

\* C3: match returns exactly the accepted best candidates, each once, in the
\* order of their query descriptors in frame_a.
C3_OrderedSubsequence ==
    MatchFiltered =>
        /\ call.ret.kind = "list"
        /\ LET ret == call.ret.val
               accepted == {i \in 1..Len(call.knn.val) : PassesRatio(i, call.self.filter_test)}
           IN  /\ Len(ret) = Cardinality(accepted)
               /\ \A j \in 1..Len(ret) :
                     /\ QueryOf(ret[j]) \in accepted
                     /\ ret[j] = call.knn.val[QueryOf(ret[j])].items[1]
               /\ \A j, k \in 1..Len(ret) : j < k => QueryOf(ret[j]) < QueryOf(ret[k])

\* two matches were returned around a query that was dropped
C3_Witness ==
    /\ MatchFiltered /\ call.ret.kind = "list" /\ Len(call.ret.val) = 2
    /\ QueryOf(call.ret.val[1]) = 1
    /\ QueryOf(call.ret.val[2]) = 3

\* C10: on a configured matcher, whatever mix of 0, 1 and 2 candidates
\* knnMatch answers with, match returns a list and never None.
C10_MatchNeverNone ==
    (call.op = "match" /\ "core" \in DOMAIN call.self /\ call.knn.ok) =>
        /\ call.stage = "_filter"
        /\ call.ret.kind = "list"
        /\ call.exc = ""
        /\ call.out = <<>>

\* an empty list was returned for an answer mixing 0, 1 and 2 candidates
C10_Witness ==
    /\ MatchFiltered /\ call.ret = PyList(<<>>)
    /\ \A n \in 0..2 : \E i \in 1..Len(call.knn.val) : Len(call.knn.val[i].items) = n

----------------------------------------------------------------------------
(* Properties of Matcher.draw_matches *)

\* draw_matches has rendered and returned its image
Rendered ==
    /\ call.op = "draw_matches"
    /\ call.exc = ""
    /\ \E i \in 1..Len(call.trace) : call.trace[i] = "drawMatches"

\* C4: draw_matches hands the renderer all the matches when limit is omitted,
\* and the first min(k, n) of them, in order, when limit = k >= 0.
C4_LimitDefaultAll ==
    Rendered =>
        IF ~call.limit.given
        THEN call.passed = call.matches
        ELSE call.limit.val >= 0 =>
                call.passed = SubSeq(call.matches, 1, Min(call.limit.val, Len(call.matches)))

\* both color images can be read and their sizes differ
SizesDiffer ==
    /\ call.op = "draw_matches"
    /\ disk[call.img_1.color_path] # NoFile
    /\ disk[call.img_2.color_path] # NoFile
    /\ disk[call.img_1.color_path] # disk[call.img_2.color_path]

\* C5: when the two color images differ in size, draw_matches ends in an
\* AssertionError, returns no image, and has loaded no image through
\* get_cv2_images nor taken any rendering step.
C5_SizeMismatchFailsFast ==
    SizesDiffer =>
        /\ call.exc = "AssertionError"
        /\ call.ret = PyNone
        /\ \A i \in 1..Len(call.trace) : call.trace[i] \notin {"imread", "drawMatches", "resize"}

\* draw_matches was called on frames of different widths, with key points and matches
C5_Witness ==
    /\ SizesDiffer
    /\ call.exc = "AssertionError"
    /\ call.img_1.key_points # NoFeatures /\ call.img_2.key_points # NoFeatures
    /\ Len(call.matches) >= 1

----------------------------------------------------------------------------
(* Properties of the Matcher object *)

\* C6: constructing a Matcher with a method other than 'FLANN' raises nothing,
\* prints a warning and sets num_features and filter_test but never core; from
\* then on core stays unset and every match call ends in an error, never in a list.
C6_NonFlannUnusable ==
    /\ []((call.op = "__init__" /\ call.method # FLANN) =>
            /\ call.exc = ""
            /\ Len(call.out) = 1
            /\ DOMAIN matcher = {"num_features", "filter_test"}
            /\ matcher.num_features = call.num_features
            /\ matcher.filter_test = call.filter_test)
    /\ [][(Constructed(matcher) /\ "core" \notin DOMAIN matcher) => "core" \notin DOMAIN matcher']_vars
    /\ []((call.op = "match" /\ "core" \notin DOMAIN call.self) =>
            /\ call.exc = "AttributeError"
            /\ call.ret.kind # "list")

\* match was called on a matcher without core, on frames whose descriptors are set
C6_Witness ==
    /\ call.op = "match"
    /\ "core" \notin DOMAIN call.self
    /\ call.exc = "AttributeError"
    /\ call.img_1.descriptors >= 1 /\ call.img_2.descriptors >= K

\* C9: once a Matcher is constructed, no match or draw_matches call changes
\* core, num_features or filter_test, and every match call filters with the
\* filter_test of the object.
C9_CoreReused ==
    /\ [][Constructed(matcher) => matcher' = matcher]_vars
    /\ [](MatchFiltered => call.threshold = matcher.filter_test /\ call.self = matcher)

\* a match call on a FLANN matcher has returned matches
C9_Witness ==
    /\ MatchFiltered
    /\ "core" \in DOMAIN matcher
    /\ call.ret.kind = "list" /\ Len(call.ret.val) >= 1

----------------------------------------------------------------------------
(* Properties of Matcher._filter called on any list *)

Malformed(x) == ~x.iterable \/ Len(x.items) # 2

HasMalformed == call.op = "_filter" /\ \E i \in 1..Len(call.matches) : Malformed(call.matches[i])

\* the first malformed element of the list
FirstMalformed ==
    call.matches[CHOOSE i \in 1..Len(call.matches) :
                    /\ Malformed(call.matches[i])
                    /\ \A j \in 1..(i - 1) : ~Malformed(call.matches[j])]

Caught == call.exc = "" /\ call.out = <<"Filter matching error">> /\ call.ret = PyNone

\* C7, as claimed: whatever the malformed element (wrong length, or not a
\* sequence at all), the failure is caught, a diagnostic is printed, no
\* exception reaches the caller and _filter returns None.
C7_MalformedAlwaysCaught == HasMalformed => Caught

\* C7, amended: when the first malformed element is an iterable of the wrong
\* length the failure is caught, a diagnostic is printed and _filter returns
\* None; when it cannot be iterated the TypeError reaches the caller and no
\* diagnostic is printed.
C7_WrongLengthCaught ==
    HasMalformed =>
        IF FirstMalformed.iterable
        THEN Caught
        ELSE call.exc = "TypeError" /\ call.out = <<>> /\ call.ret = PyNone

\* a pair had passed the ratio test before the element of the wrong length
C7_Witness ==
    /\ HasMalformed
    /\ Len(call.matches) >= 2
    /\ ~Malformed(call.matches[1])
    /\ call.matches[1].items[1].distance * call.filter_test[2]
          < call.filter_test[1] * call.matches[1].items[2].distance
    /\ FirstMalformed.iterable
    /\ Caught

----------------------------------------------------------------------------
(* Properties of Frame.get_size *)

\* C8: after every call of get_size, returned or raised, no file handle opened
\* by get_size is open, the Frame is as it was, and the size returned is the
\* size of the color image file.
C8_GetSizeScoped ==
    /\ handles.get_size = 0
    /\ call.op = "get_size" =>
          /\ call.after = call.self
          /\ IF disk[call.self.color_path] = NoFile
             THEN call.exc = "FileNotFoundError" /\ call.ret = PyNone
             ELSE call.exc = "" /\ call.ret = PySize(disk[call.self.color_path])

\* get_size returned a size while an image of get_pil_images was still open
C8_Witness ==
    /\ call.op = "get_size"
    /\ call.exc = ""
    /\ call.ret.kind = "size"
    /\ handles.get_pil_images >= 1
    /\ call.self.key_points # NoFeatures

====
